---- MODULE Spec2Model ----
(***************************************************************************)
(* k8s-diff-action: the run() pipeline of src/main.js (current version,    *)
(* lines 319-473) with the helpers it calls: config.js, git.js, tools.js,  *)
(* commands.js and manifests.js.                                           *)
(*                                                                         *)
(* Text is modelled as a sequence of tokens.  A token is either one        *)
(* whitespace character (" ", "\t", "\n") or a chunk of characters that    *)
(* holds no whitespace ("helm", "template", "/tmp/base-ref.yaml").         *)
(* Concatenation is \o, the empty string is <<>>.  File names, which the   *)
(* code matches against a regular expression, are sequences of single      *)
(* characters.  The tool name is only compared and looked up, never cut,   *)
(* so it is an atomic TLA+ string ("" is the absent input).                *)
(***************************************************************************)
EXTENDS Naturals, Sequences, FiniteSets, TLC

\* ------------------------------------------------------------------ text

Whitespace == {" ", "\t", "\n"}

RECURSIVE TrimStart(_)
TrimStart(s) ==
    IF s # <<>> /\ Head(s) \in Whitespace THEN TrimStart(Tail(s)) ELSE s

RECURSIVE TrimEnd(_)
TrimEnd(s) ==
    IF s # <<>> /\ s[Len(s)] \in Whitespace
    THEN TrimEnd(SubSeq(s, 1, Len(s) - 1))
    ELSE s

\* String.prototype.trim
Trim(s) == TrimEnd(TrimStart(s))

\* Index of the first occurrence of the one-character separator, 0 if none.
IndexOf(s, sep) ==
    IF \E i \in 1..Len(s) : s[i] = sep
    THEN CHOOSE i \in 1..Len(s) : s[i] = sep /\ \A j \in 1..(i - 1) : s[j] # sep
    ELSE 0

\* String.prototype.split with a one-character separator: every occurrence
\* cuts, so two separators in a row yield an empty piece.
RECURSIVE Split(_, _)
Split(s, sep) ==
    LET i == IndexOf(s, sep)
    IN  IF i = 0
        THEN <<s>>
        ELSE <<SubSeq(s, 1, i - 1)>> \o Split(SubSeq(s, i + 1, Len(s)), sep)

RECURSIVE MapTrim(_)
MapTrim(pieces) ==
    IF pieces = <<>> THEN <<>> ELSE <<Trim(Head(pieces))>> \o MapTrim(Tail(pieces))

RECURSIVE FilterNonEmpty(_)
FilterNonEmpty(pieces) ==
    IF pieces = <<>>
    THEN <<>>
    ELSE (IF Len(Head(pieces)) > 0 THEN <<Head(pieces)>> ELSE <<>>)
         \o FilterNonEmpty(Tail(pieces))

\* ------------------------------------------------------------- JS values

\* The values `command` and `prepareCommands` can hold: a string, or (for a
\* tool name that is a member of Object.prototype) a non-string object.
JsStr(s) == [type |-> "string", str |-> s]
JsFunction == [type |-> "function", str |-> <<>>]
JsUndefined == [type |-> "undefined", str |-> <<>>]

Truthy(v) == v.type = "function" \/ (v.type = "string" /\ v.str # <<>>)

\* a || b
OrElse(a, b) == IF Truthy(a) THEN a ELSE b

\* --------------------------------------------------------------- config

CommandDefaults ==
    [yaml |-> <<>>,
     helm |-> <<"helm", " ", "template", " ", ".">>,
     kustomize |-> <<"kustomize", " ", "build", " ", ".">>]

PrepareDefaults ==
    [yaml |-> <<>>,
     helm |-> <<"helm", " ", "dependency", " ", "update">>,
     kustomize |-> <<>>]

\* Property names every object literal inherits from Object.prototype.
ObjectPrototypeKeys == {"constructor", "toString", "valueOf", "hasOwnProperty"}

\* defaults[tool]: an own property, else an inherited one, else undefined.
GetProperty(defaults, tool) ==
    IF tool \in DOMAIN defaults THEN JsStr(defaults[tool])
    ELSE IF tool \in ObjectPrototypeKeys THEN JsFunction
    ELSE JsUndefined

getDefaultCommand(tool) == OrElse(GetProperty(CommandDefaults, tool), JsStr(<<>>))

getDefaultPrepareCommands(tool) == OrElse(GetProperty(PrepareDefaults, tool), JsStr(<<>>))

\* ------------------------------------------------------------- commands

\* What the operating system answers to one process launch: the process
\* ran and exited (exitCode, stdout, stderr), or the launch itself raised.
Exited(code, out, err) ==
    [raised |-> FALSE, exitCode |-> code, stdout |-> out, stderr |-> err, message |-> <<>>]

Raised(msg) ==
    [raised |-> TRUE, exitCode |-> 0, stdout |-> <<>>, stderr |-> <<>>, message |-> msg]

Returned(v) == [threw |-> FALSE, error |-> <<>>, value |-> v]
Threw(msg) == [threw |-> TRUE, error |-> msg, value |-> <<>>]

\* One entry of the log of calls: the program, its arguments, its working
\* directory and, for a launch runCommand made, what runCommand captured.
NotCaptured == [exitCode |-> 0, stdout |-> <<>>, stderr |-> <<>>]

Call(prog, args, cwd) == [prog |-> prog, args |-> args, cwd |-> cwd, result |-> NotCaptured]

Launch(r) ==
    [r.call EXCEPT !.result = [exitCode |-> r.exitCode, stdout |-> r.stdout, stderr |-> r.stderr]]

\* The try/catch of runCommand: a raised failure becomes stdout "",
\* stderr = the message, exit code 1.
CaptureResultMutNoCatch(o) ==
    [stdout |-> o.stdout, stderr |-> o.stderr, exitCode |-> o.exitCode]

CaptureResult(o) ==
    IF o.raised
    THEN [stdout |-> <<>>, stderr |-> o.message, exitCode |-> 1]
    ELSE [stdout |-> o.stdout, stderr |-> o.stderr, exitCode |-> o.exitCode]

\* runCommand(command, workingDir): value is the {stdout, stderr, exitCode}
\* result with the launch it made; outcome is what the launch answers.
\* command.split raises a TypeError when command is not a string; that is
\* outside the try block.
runCommand(command, workingDir, outcome) ==
    IF command.type # "string"
    THEN Threw(<<"command.split is not a function">>)
    ELSE LET args == Split(command.str, " ")
             cmd == Head(args)
             r == CaptureResult(outcome)
         IN  Returned([stdout |-> r.stdout, stderr |-> r.stderr, exitCode |-> r.exitCode,
                       call |-> Call(cmd, Tail(args), workingDir)])

\* The commands of a prepare-commands text: split on newlines, each line
\* trimmed, empty lines dropped.
PrepareList(text) == FilterNonEmpty(MapTrim(Split(text, "\n")))

PrepareFailureLine(cmd, stderr) ==
    <<"Prepare command failed (">> \o cmd \o <<"): ">> \o stderr \o <<"\n">>

\* After a prepare command returned: does the loop go on to the next one?
PrepareContinuesMutIgnoreExit(result) == TRUE

PrepareContinues(result) == result.exitCode = 0

\* runPrepareCommands up to its loop: the commands it is going to run
\* (none for an absent or blank text; .trim raises on a non-string).
PrepareCommandsToRun(prepareCommands) ==
    IF ~Truthy(prepareCommands)
    THEN Returned(<<>>)
    ELSE IF prepareCommands.type # "string"
    THEN Threw(<<"prepareCommands.trim is not a function">>)
    ELSE IF Trim(prepareCommands.str) = <<>>
    THEN Returned(<<>>)
    ELSE Returned(PrepareList(prepareCommands.str))

\* ------------------------------------------------------------ manifests

\* A directory as the file system shows it: absent, a non-directory, or a
\* directory with its entries.
MissingDir == [exists |-> FALSE, isDir |-> FALSE, entries |-> <<>>]
NotADir == [exists |-> TRUE, isDir |-> FALSE, entries |-> <<>>]
Directory(entries) == [exists |-> TRUE, isDir |-> TRUE, entries |-> entries]

\* Directory entries: a regular file with its text, a sub-directory with
\* its own entries, or something else (a socket, a dangling link).
File(name, content) == [kind |-> "file", name |-> name, content |-> content, children |-> <<>>]
Dir(name, children) == [kind |-> "dir", name |-> name, content |-> <<>>, children |-> children]
Other(name) == [kind |-> "other", name |-> name, content |-> <<>>, children |-> <<>>]

LowerChar(c) ==
    CASE c = "Y" -> "y" [] c = "A" -> "a" [] c = "M" -> "m" [] c = "L" -> "l" [] OTHER -> c

EndsWith(s, suffix) ==
    /\ Len(s) >= Len(suffix)
    /\ SubSeq(s, Len(s) - Len(suffix) + 1, Len(s)) = suffix

\* /\.(yaml|yml)$/i.test(name)
IsYamlNameMutCaseSensitive(name) ==
    \/ EndsWith(name, <<".", "y", "a", "m", "l">>)
    \/ EndsWith(name, <<".", "y", "m", "l">>)

IsYamlName(name) ==
    LET lower == [i \in 1..Len(name) |-> LowerChar(name[i])]
    IN  \/ EndsWith(lower, <<".", "y", "a", "m", "l">>)
        \/ EndsWith(lower, <<".", "y", "m", "l">>)

\* findYamlFiles: the matching files in traversal order, sub-directories
\* entered where they stand.
RECURSIVE findYamlFiles(_)
findYamlFiles(entries) ==
    IF entries = <<>>
    THEN <<>>
    ELSE LET e == Head(entries)
         IN  (IF e.kind = "dir" THEN findYamlFiles(e.children)
              ELSE IF e.kind = "file" /\ IsYamlName(e.name) THEN <<e>>
              ELSE <<>>)
             \o findYamlFiles(Tail(entries))

RECURSIVE CombineContent(_)
CombineContent(yamlFiles) ==
    IF yamlFiles = <<>>
    THEN <<>>
    ELSE <<"---", "\n">> \o Head(yamlFiles).content \o <<"\n">>
         \o CombineContent(Tail(yamlFiles))

ReaddirMessage == <<"ENOENT: no such file or directory, scandir">>

\* collectYamlFiles(directory): readdir rejects on a path that is no
\* directory.
collectYamlFiles(dir) ==
    IF ~(dir.exists /\ dir.isDir)
    THEN Threw(ReaddirMessage)
    ELSE Returned(CombineContent(findYamlFiles(dir.entries)))

ManifestResult(content, stderr, hasError) ==
    [content |-> content, stderr |-> stderr, hasError |-> hasError]

\* hasError of a rendered side.
RenderHasErrorMutNever(result) == FALSE

RenderHasError(result) == result.exitCode # 0

\* Line 62 of generateManifests: collect files instead of running a command.
CollectsFiles(tool, command) == tool = "yaml" /\ ~Truthy(command)

\* ------------------------------------------------------------------ git

RECURSIVE RemoveFirst(_, _)
RemoveFirst(s, token) ==
    IF s = <<>> THEN <<>>
    ELSE IF Head(s) = token THEN Tail(s)
    ELSE <<Head(s)>> \o RemoveFirst(Tail(s), token)

\* getDefaultBranch(): the symbolic-ref query, "main" when it raises.
getDefaultBranch(outcome) ==
    IF outcome.raised
    THEN <<"main">>
    ELSE RemoveFirst(Trim(outcome.stdout), "refs/remotes/origin/")

\* ---------------------------------------------------------------- bounds

\* The longest prepare-commands input holds this many commands.
MaxPrepareCommands == 2

\* Directory trees nest this deep.
MaxDepth == 2

\* ------------------------------------------------------- the environment

Sides == {"base", "head"}

Commits == {<<"c1">>, <<"c2">>}

\* A lookup finds a commit or nothing (<<>>).
Lookups == Commits \cup {<<>>}

Error(msg) == [isError |-> TRUE, message |-> msg]

\* What io, fs, tool-cache and git raise when a call of theirs fails:
\* every one of them an Error object.
RaisedValues == {Error(<<"Git command failed">>), Error(<<"EACCES: permission denied">>)}

\* A prepare-commands input of n commands, written the way a workflow
\* file yields it: indented lines with blank lines between them.
RECURSIVE PrepareText(_)
PrepareText(n) ==
    IF n = 0
    THEN <<>>
    ELSE PrepareText(n - 1) \o <<" ", "step", " ", ToString(n), "\n", "\n">>

BlankText == <<" ", "\n">>

CustomCommand == <<"helm", " ", "template", " ", "my-release", " ", ".">>

ToolInputs == {"", "yaml", "helm", "kustomize", "kubectl", "constructor"}
CommandInputs == {<<>>, CustomCommand}
PrepareInputs == {PrepareText(n) : n \in 0..MaxPrepareCommands} \cup {BlankText}
BaseRefInputs == {<<>>, <<"release">>}
HeadRefInputs == {<<>>, <<"feature">>}
ShaEnvironment == {<<>>, <<"c2">>}
WorkingDirInputs == {<<>>, <<"charts">>}
HeadWorkingDirInputs == {<<>>, <<"next">>}

Inputs(tools, commands, prepares, baseRefs, headRefs, shas, dirs, headDirs) ==
    [tool : tools, command : commands, prepareCommands : prepares,
     baseRef : baseRefs, headRef : headRefs, GITHUB_SHA : shas,
     workingDir : dirs, headWorkingDir : headDirs]

\* The host: which tools `which` finds, and what `go env GOPATH` prints.
Hosts == [helm : BOOLEAN, yamldiff : BOOLEAN, gopath : {<<>>, <<"/root/go">>}]

\* The repository: the commit HEAD is at (<<>>: rev-parse HEAD fails), the
\* branch origin/HEAD points to (<<>>: the query fails), and per side the
\* commit its ref names directly and under origin/.
Repos ==
    [head : {<<"c1">>, <<>>}, defaultBranch : {<<"trunk">>, <<>>},
     direct : [Sides -> Lookups], origin : [Sides -> Lookups]]

\* Answers to the launch of a prepare, render or diff command.
LaunchOutcomes ==
    {Exited(0, <<"kind: A">>, <<>>),
     Exited(0, <<"kind: B">>, <<"warning">>),
     Exited(2, <<"kind: partial">>, <<>>),
     Raised(<<"spawn ENOENT">>)}

\* The longest file list of one directory handed to collectYamlFiles alone.
MaxFiles == 1

\* Entries for the directories collectYamlFiles is handed alone: matching
\* names in both letter cases, a name that only holds the extension, and
\* a matching name on something that is no regular file.
CollectEntries ==
    {File(<<"a", ".", "y", "a", "m", "l">>, <<"kind: A">>),
     File(<<"b", ".", "Y", "M", "L">>, <<"kind: B">>),
     File(<<"c", ".", "y", "m", "l", ".", "b", "a", "k">>, <<"backup">>),
     Other(<<"d", ".", "y", "a", "m", "l">>)}

\* Entry lists of at most n of those entries.
RECURSIVE FlatEntries(_)
FlatEntries(n) ==
    IF n = 0
    THEN {<<>>}
    ELSE FlatEntries(n - 1)
         \cup {Append(l, e) : l \in {k \in FlatEntries(n - 1) : Len(k) = n - 1},
                               e \in CollectEntries}

\* The list l with the entry e put in before position i.
InsertAt(l, i, e) == SubSeq(l, 1, i - 1) \o <<e>> \o SubSeq(l, i, Len(l))

\* Entry lists of depth at most d: flat ones, and flat ones with one
\* sub-directory put in at any position.
RECURSIVE CollectTrees(_)
CollectTrees(d) ==
    IF d = 1
    THEN FlatEntries(MaxFiles)
    ELSE FlatEntries(MaxFiles)
         \cup {InsertAt(l, i, Dir(<<"s", "u", "b">>, t)) :
                  <<l, i, t>> \in {x \in FlatEntries(MaxFiles) \X (1..(MaxFiles + 1))
                                          \X CollectTrees(d - 1) : x[2] <= Len(x[1]) + 1}}

CollectInputs == {MissingDir, NotADir} \cup {Directory(t) : t \in CollectTrees(MaxDepth)}

\* Directory trees of depth at most d.
RECURSIVE TreesOfDepth(_)
TreesOfDepth(d) ==
    IF d = 0
    THEN {<<>>}
    ELSE {<<>>,
          <<File(<<"a", ".", "y", "a", "m", "l">>, <<"kind: A">>)>>,
          <<Other(<<"s", "o", "c", "k">>), File(<<"n", ".", "t", "x", "t">>, <<"notes">>)>>}
         \cup {<<File(<<"b", ".", "Y", "M", "L">>, <<"kind: B">>), Dir(<<"d">>, t)>>
                 : t \in TreesOfDepth(d - 1) \ {<<>>}}

Trees == TreesOfDepth(MaxDepth)

WorkingDirStates == {MissingDir, NotADir} \cup {Directory(t) : t \in Trees}

\* ------------------------------------------------------------------ run

VARIABLES
    pc,         \* where run() stands: the await it is at, "done" or "failed"
    input,      \* the action's inputs and the GITHUB_SHA variable
    host,       \* the tools present on the host
    repo,       \* what the repository's refs resolve to
    cfg,        \* tool, command, prepareCommands, refs and working dirs
    sha,        \* side -> the stdout of the rev-parse that resolved its ref
    results,    \* side -> baseResult / headResult, "diff" -> diffResult
    allStderr,  \* run()'s allStderr
    hasError,   \* run()'s hasError
    calls,      \* every process launch and tool-cache/io call made, in order
    files,      \* path -> the text writeFile put there
    outputs,    \* output name -> the value core.setOutput was given
    pending,    \* the prepare commands runPrepareCommands has still to run
    baseDirSeen, \* what the emptiness check found at the base working directory
    tree,       \* the directory handed to collectYamlFiles, when the run starts there
    failed,     \* the messages core.setFailed was called with, in order
    thrown      \* the raised values that reached run()'s catch block

vars == <<pc, input, host, repo, cfg, sha, results, allStderr, hasError, calls, files,
          outputs, pending, baseDirSeen, tree, failed, thrown>>

world == <<input, host, repo, tree>>

baseRepoDir == <<"/tmp/base-ref-repo">>
headRepoDir == <<"/tmp/head-ref-repo">>
baseFile == <<"/tmp/base-ref.yaml">>
headFile == <<"/tmp/head-ref.yaml">>

RepoDir(side) == IF side = "base" THEN baseRepoDir ELSE headRepoDir
OutFile(side) == IF side = "base" THEN baseFile ELSE headFile

\* path.join(repoDir, workingDir)
PathJoin(dir, rel) == IF rel = <<"./">> THEN dir \o <<"/">> ELSE dir \o <<"/">> \o rel

\* a || b on strings
OrText(a, b) == IF a # <<>> THEN a ELSE b

NoConfig ==
    [tool |-> "", command |-> JsUndefined, prepareCommands |-> JsUndefined,
     baseRef |-> <<>>, headRef |-> <<>>, workingDir |-> <<>>, headWorkingDir |-> <<>>,
     currentHeadSha |-> <<>>]

Empty == [x \in {} |-> <<>>]

InitWith(worlds) ==
    /\ \E w \in worlds :
        /\ input = w.input
        /\ host = w.host
        /\ repo = w.repo
    /\ pc = "start"
    /\ cfg = NoConfig
    /\ sha = Empty
    /\ results = Empty
    /\ allStderr = <<>>
    /\ hasError = FALSE
    /\ calls = <<>>
    /\ files = Empty
    /\ outputs = Empty
    /\ pending = <<>>
    /\ baseDirSeen = "unseen"
    /\ tree = MissingDir
    /\ failed = <<>>
    /\ thrown = <<>>

\* The catch block of run(): setFailed with the message of an Error.
CatchMutSwallow(err) ==
    /\ pc' = "failed"
    /\ thrown' = Append(thrown, err)
    /\ failed' = failed

CatchMutOwnMessage(err) ==
    /\ pc' = "failed"
    /\ thrown' = Append(thrown, err)
    /\ failed' = Append(failed, <<"Action failed">>)

Catch(err) ==
    /\ pc' = "failed"
    /\ thrown' = Append(thrown, err)
    /\ failed' = IF err.isError THEN Append(failed, err.message) ELSE failed

Goto(next) ==
    /\ pc' = next
    /\ UNCHANGED <<failed, thrown>>

\* exec.getExecOutput('git', ['rev-parse', ref]) and the symbolic-ref
\* query, without ignoreReturnCode: a lookup that finds nothing rejects.
GitAnswer(found, what) ==
    IF found = <<>>
    THEN Raised(<<"The process 'git' failed with exit code 128: ">> \o what)
    ELSE Exited(0, found \o <<"\n">>, <<>>)

\* Lines 321-329: the inputs, the default branch when base-ref is absent,
\* the per-tool defaults.
ResolvedTool(in) == IF in.tool # "" THEN in.tool ELSE "yaml"

ResolvedCommand(in) == OrElse(JsStr(in.command), getDefaultCommand(ResolvedTool(in)))

ResolvedPrepareCommands(in) ==
    OrElse(JsStr(in.prepareCommands), getDefaultPrepareCommands(ResolvedTool(in)))

SymbolicRefCall == Call(<<"git">>, <<<<"symbolic-ref">>, <<"refs/remotes/origin/HEAD">>>>, <<>>)

SymbolicRefAnswer ==
    GitAnswer(IF repo.defaultBranch = <<>> THEN <<>>
              ELSE <<"refs/remotes/origin/">> \o repo.defaultBranch,
              <<"symbolic-ref">>)

ResolveConfig ==
    /\ pc = "start"
    /\ cfg' = [cfg EXCEPT
                 !.tool = ResolvedTool(input),
                 !.command = ResolvedCommand(input),
                 !.prepareCommands = ResolvedPrepareCommands(input),
                 !.baseRef = OrText(input.baseRef, getDefaultBranch(SymbolicRefAnswer)),
                 !.workingDir = OrText(input.workingDir, <<"./">>),
                 !.headWorkingDir =
                     OrText(input.headWorkingDir, OrText(input.workingDir, <<"./">>))]
    /\ calls' = IF input.baseRef = <<>> THEN Append(calls, SymbolicRefCall) ELSE calls
    /\ Goto("revParseHEAD")
    /\ UNCHANGED <<world, sha, results, allStderr, hasError, files, outputs, pending, baseDirSeen>>

RevParseCall(ref) == Call(<<"git">>, <<<<"rev-parse">>, ref>>, <<>>)

\* Lines 331-351: the current commit, the head ref, the log lines (the
\* prepare-commands line calls prepareCommands.split).
RevParseHEAD ==
    /\ pc = "revParseHEAD"
    /\ calls' = Append(calls, RevParseCall(<<"HEAD">>))
    /\ LET o == GitAnswer(repo.head, <<"HEAD">>)
       IN  IF o.raised
           THEN /\ Catch(Error(o.message))
                /\ UNCHANGED cfg
           ELSE /\ cfg' = [cfg EXCEPT
                             !.currentHeadSha = Trim(o.stdout),
                             !.headRef = OrText(input.headRef,
                                                OrText(input.GITHUB_SHA, Trim(o.stdout)))]
                /\ IF Truthy(cfg.prepareCommands) /\ cfg.prepareCommands.type # "string"
                   THEN Catch(Error(<<"prepareCommands.split is not a function">>))
                   ELSE Goto(IF cfg.tool = "helm" THEN "probeHelm" ELSE "probeYamldiff")
    /\ UNCHANGED <<world, sha, results, allStderr, hasError, files, outputs, pending, baseDirSeen>>

\* ------------------------------------------------------- tool provisioning

WhichCall(toolName) == Call(<<"which", " ", toolName>>, <<>>, <<>>)

\* What `which <tool>` exits with on the host: exec.exec rejects on 1.
WhichExitCode(toolName) ==
    IF (IF toolName = "helm" THEN host.helm ELSE host.yamldiff) THEN 0 ELSE 1

\* The probe as the log keeps it, with the exit code of `which`.
ProbeCall(toolName) ==
    [WhichCall(toolName) EXCEPT !.result.exitCode = WhichExitCode(toolName)]

\* isToolInstalled(toolName): `which` raising is "not installed".
isToolInstalledMutAlways(toolName) == TRUE

isToolInstalled(toolName) == WhichExitCode(toolName) = 0

\* Line 353: helm is installed when the tool is helm and the probe fails.
ProbeHelm ==
    /\ pc = "probeHelm"
    /\ calls' = Append(calls, ProbeCall("helm"))
    /\ Goto(IF isToolInstalled("helm") THEN "probeYamldiff" ELSE "installHelm")
    /\ UNCHANGED <<world, cfg, sha, results, allStderr, hasError, files, outputs, pending, baseDirSeen>>

HelmSteps ==
    <<Call(<<"tc.downloadTool">>, <<>>, <<>>),
      Call(<<"tc.extractTar">>, <<>>, <<>>),
      Call(<<"tc.cacheDir">>, <<<<"helm">>, <<"v3.14.0">>>>, <<>>)>>

AddPathCall(dir) == Call(<<"core.addPath">>, <<dir>>, <<>>)

\* installHelm(): download, extract, cache, add to the path; any of the
\* three tool-cache calls may raise.
InstallHelm ==
    /\ pc = "installHelm"
    /\ \/ /\ calls' = calls \o HelmSteps \o <<AddPathCall(<<"helm-cache">>)>>
          /\ host' = [host EXCEPT !.helm = TRUE]
          /\ Goto("probeYamldiff")
       \/ \E k \in 1..Len(HelmSteps), e \in RaisedValues :
            /\ calls' = calls \o SubSeq(HelmSteps, 1, k)
            /\ Catch(e)
            /\ UNCHANGED host
    /\ UNCHANGED <<input, repo, tree, cfg, sha, results, allStderr, hasError, files, outputs,
                   pending, baseDirSeen>>

\* Line 357: yamldiff is installed when the probe fails.
ProbeYamldiff ==
    /\ pc = "probeYamldiff"
    /\ calls' = Append(calls, ProbeCall("yamldiff"))
    /\ Goto(IF isToolInstalled("yamldiff") THEN "rmBase" ELSE "installYamldiff")
    /\ UNCHANGED <<world, cfg, sha, results, allStderr, hasError, files, outputs, pending, baseDirSeen>>

GoInstallCall == Call(<<"go">>, <<<<"install">>, <<"github.com/semihbkgr/yamldiff@v0.3.0">>>>, <<>>)
GoEnvCall == Call(<<"go">>, <<<<"env">>, <<"GOPATH">>>>, <<>>)

\* installYamldiff(): go install, then the GOPATH query and addPath; both
\* launches reject when they fail.
InstallYamldiff ==
    /\ pc = "installYamldiff"
    /\ \/ \E e \in RaisedValues :
            /\ calls' = Append(calls, GoInstallCall)
            /\ Catch(e)
            /\ UNCHANGED host
       \/ \E e \in RaisedValues :
            /\ calls' = calls \o <<GoInstallCall, GoEnvCall>>
            /\ Catch(e)
            /\ UNCHANGED host
       \/ LET stdout == host.gopath \o <<"\n">>
          IN  /\ calls' = calls \o <<GoInstallCall, GoEnvCall>>
                     \o (IF Trim(stdout) # <<>>
                         THEN <<AddPathCall(Trim(stdout) \o <<"/bin">>)>>
                         ELSE <<>>)
              /\ host' = [host EXCEPT !.yamldiff = TRUE]
              /\ Goto("rmBase")
    /\ UNCHANGED <<input, repo, tree, cfg, sha, results, allStderr, hasError, files, outputs,
                   pending, baseDirSeen>>

\* ------------------------------------------------- revision materialization

RmCall(dir) == Call(<<"io.rmRF">>, <<dir>>, <<>>)

\* io.rmRF(<side repo dir>) (lines 363, 413)
RemoveRepoDir(side) ==
    /\ pc = (IF side = "base" THEN "rmBase" ELSE "rmHead")
    /\ calls' = Append(calls, RmCall(RepoDir(side)))
    /\ \/ Goto(IF side = "base" THEN "resolveBase" ELSE "resolveHead")
       \/ \E e \in RaisedValues : Catch(e)
    /\ UNCHANGED <<world, cfg, sha, results, allStderr, hasError, files, outputs, pending, baseDirSeen>>

SideRef(side) == IF side = "base" THEN cfg.baseRef ELSE cfg.headRef

OriginRef(ref) == <<"origin/">> \o ref

\* git rev-parse <ref>: a commit id names itself, a ref name is looked up.
RevParseAnswer(side, ref) ==
    GitAnswer(IF ref \in Commits THEN ref ELSE repo.direct[side], ref)

RevParseOriginAnswer(side, ref) == GitAnswer(repo.origin[side], OriginRef(ref))

\* The sha a side keeps from the two lookups.
ResolvedShaMutKeepDirect(direct, origin) == direct.stdout

ResolvedSha(direct, origin) == IF direct.raised THEN origin.stdout ELSE direct.stdout

\* Lines 364-375 / 414-425: rev-parse <ref>, and on a raise rev-parse
\* origin/<ref>, whose raise is not caught.
ResolveRef(side) ==
    /\ pc = (IF side = "base" THEN "resolveBase" ELSE "resolveHead")
    /\ LET direct == RevParseAnswer(side, SideRef(side))
           origin == RevParseOriginAnswer(side, SideRef(side))
       IN  /\ calls' = calls \o <<RevParseCall(SideRef(side))>>
                       \o (IF direct.raised THEN <<RevParseCall(OriginRef(SideRef(side)))>>
                           ELSE <<>>)
           /\ IF direct.raised /\ origin.raised
              THEN /\ Catch(Error(origin.message))
                   /\ UNCHANGED sha
              ELSE /\ sha' = sha @@ (side :> ResolvedSha(direct, origin))
                   /\ Goto(IF side = "base" THEN "cloneBase" ELSE "cloneHead")
    /\ UNCHANGED <<world, cfg, results, allStderr, hasError, files, outputs, pending, baseDirSeen>>

CloneCall(side) == Call(<<"git">>, <<<<"clone">>, <<".">>, RepoDir(side)>>, <<>>)

\* git clone . <side repo dir> (lines 378, 428)
Clone(side) ==
    /\ pc = (IF side = "base" THEN "cloneBase" ELSE "cloneHead")
    /\ calls' = Append(calls, CloneCall(side))
    /\ \/ Goto(IF side = "base" THEN "checkoutBase" ELSE "checkoutHead")
       \/ \E e \in RaisedValues : Catch(e)
    /\ UNCHANGED <<world, cfg, sha, results, allStderr, hasError, files, outputs, pending, baseDirSeen>>

CheckoutCall(side, commit) == Call(<<"git">>, <<<<"checkout">>, commit>>, RepoDir(side))

\* git checkout <sha.trim()> inside the clone (lines 379, 429)
Checkout(side) ==
    /\ pc = (IF side = "base" THEN "checkoutBase" ELSE "checkoutHead")
    /\ calls' = Append(calls, CheckoutCall(side, Trim(sha[side])))
    /\ \/ Goto(IF side = "base" THEN "generateBase" ELSE "generateHead")
       \/ \E e \in RaisedValues : Catch(e)
    /\ UNCHANGED <<world, cfg, sha, results, allStderr, hasError, files, outputs, pending, baseDirSeen>>

\* ------------------------------------------------------ manifest generation

SideWorkingDirMutSameDir(side) == PathJoin(RepoDir(side), cfg.workingDir)

SideWorkingDir(side) ==
    IF side = "base"
    THEN PathJoin(baseRepoDir, cfg.workingDir)
    ELSE PathJoin(headRepoDir, cfg.headWorkingDir)

ErrorPrefix(side) == IF side = "base" THEN "Base ref error: " ELSE "Head ref error: "

\* allStderr after a side's result (lines 403-406, 439-442)
AccumulatedMutSkipEmptyText(acc, prefix, result) ==
    IF result.hasError /\ result.stderr # <<>>
    THEN acc \o <<prefix>> \o result.stderr \o <<"\n">>
    ELSE acc

AccumulatedMutNoPrefix(acc, prefix, result) ==
    IF result.hasError THEN acc \o result.stderr ELSE acc

Accumulated(acc, prefix, result) ==
    IF result.hasError
    THEN acc \o <<prefix>> \o result.stderr \o <<"\n">>
    ELSE acc

\* Where run() goes once a side's result is in.
AfterGenerateMutStopOnError(side, result) ==
    IF result.hasError THEN "done"
    ELSE IF side = "base" THEN "writeBase" ELSE "writeHead"

AfterGenerateMutSkipWrite(side, result) == IF side = "base" THEN "rmHead" ELSE "writeHead"

AfterGenerate(side, result) == IF side = "base" THEN "writeBase" ELSE "writeHead"

\* The side's result is stored and accumulated; run() goes on to the write.
TakeResult(side, result) ==
    /\ results' = results @@ (side :> result)
    /\ allStderr' = Accumulated(allStderr, ErrorPrefix(side), result)
    /\ hasError' = (hasError \/ result.hasError)
    /\ Goto(AfterGenerate(side, result))

\* The base side is taken as empty: its working directory is absent or
\* holds nothing (lines 384-387).
BaseIsEmptyMutNeverEmpty(dir) == FALSE

BaseIsEmpty(dir) == ~dir.exists \/ Len(dir.entries) = 0

EmptyResult == ManifestResult(<<>>, <<>>, FALSE)

\* What fs.existsSync and fs.readdirSync tell of the directory (lines 386-388).
DirClass(dir) ==
    IF ~dir.exists THEN "missing"
    ELSE IF ~dir.isDir THEN "notdir"
    ELSE IF Len(dir.entries) = 0 THEN "empty"
    ELSE "nonempty"

\* collectYamlFiles as generateManifests calls it (lines 62-65).
CollectStep(side, dir) ==
    LET content == collectYamlFiles(dir)
    IN  IF content.threw
        THEN /\ Catch(Error(content.error))
             /\ UNCHANGED <<results, allStderr, hasError>>
        ELSE TakeResult(side, ManifestResult(content.value, <<>>, FALSE))

\* Lines 381-401 (base) and 431-437 (head) up to the first process launch:
\* the emptiness check of the base side, then generateManifests entering
\* runPrepareCommands.
BeginGenerate(side) ==
    /\ pc = (IF side = "base" THEN "generateBase" ELSE "generateHead")
    /\ \E dir \in WorkingDirStates :
       /\ baseDirSeen' = (IF side = "base" THEN DirClass(dir) ELSE baseDirSeen)
       /\ IF side = "base" /\ dir.exists /\ ~dir.isDir
          THEN /\ Catch(Error(<<"ENOTDIR: not a directory, scandir">>))
               /\ UNCHANGED <<results, allStderr, hasError, pending>>
          ELSE IF side = "base" /\ BaseIsEmpty(dir)
          THEN /\ TakeResult(side, EmptyResult)
               /\ UNCHANGED pending
          ELSE LET commands == PrepareCommandsToRun(cfg.prepareCommands)
               IN IF commands.threw
                 THEN /\ Catch(Error(commands.error))
                      /\ UNCHANGED <<results, allStderr, hasError, pending>>
                 ELSE IF commands.value # <<>>
                 THEN /\ pending' = commands.value
                      /\ Goto(IF side = "base" THEN "prepareBase" ELSE "prepareHead")
                      /\ UNCHANGED <<results, allStderr, hasError>>
                 ELSE IF CollectsFiles(cfg.tool, cfg.command)
                 THEN /\ CollectStep(side, dir)
                      /\ UNCHANGED pending
                 ELSE /\ Goto(IF side = "base" THEN "renderBase" ELSE "renderHead")
                      /\ UNCHANGED <<results, allStderr, hasError, pending>>
    /\ UNCHANGED <<world, cfg, sha, calls, files, outputs>>

\* One turn of the loop of runPrepareCommands: the next command is run;
\* a non-zero exit ends the loop and generateManifests returns the error.
PrepareStep(side) ==
    /\ pc = (IF side = "base" THEN "prepareBase" ELSE "prepareHead")
    /\ \E o \in LaunchOutcomes :
        LET cmd == Head(pending)
            result == runCommand(JsStr(cmd), SideWorkingDir(side), o).value
        IN  /\ calls' = Append(calls, Launch(result))
            /\ IF PrepareContinues(result)
               THEN /\ pending' = Tail(pending)
                    /\ Goto(IF Tail(pending) # <<>> THEN pc
                            ELSE IF side = "base" THEN "renderBase" ELSE "renderHead")
                    /\ UNCHANGED <<results, allStderr, hasError>>
               ELSE /\ pending' = <<>>
                    /\ TakeResult(side, ManifestResult(<<>>,
                                        PrepareFailureLine(cmd, result.stderr), TRUE))
    /\ UNCHANGED <<world, cfg, sha, files, outputs, baseDirSeen>>

\* generateManifests after the prepare commands (lines 62-72): the files
\* are collected or the render command is run.
Render(side) ==
    /\ pc = (IF side = "base" THEN "renderBase" ELSE "renderHead")
    /\ IF CollectsFiles(cfg.tool, cfg.command)
       THEN /\ \E dir \in WorkingDirStates : CollectStep(side, dir)
            /\ UNCHANGED calls
       ELSE \E o \in LaunchOutcomes :
            LET result == runCommand(cfg.command, SideWorkingDir(side), o)
            IN  IF result.threw
                THEN /\ Catch(Error(result.error))
                     /\ UNCHANGED <<results, allStderr, hasError, calls>>
                ELSE /\ calls' = Append(calls, Launch(result.value))
                     /\ TakeResult(side, ManifestResult(result.value.stdout,
                                         result.value.stderr, RenderHasError(result.value)))
    /\ UNCHANGED <<world, cfg, sha, files, outputs, pending, baseDirSeen>>

\* ------------------------------------------------------ diff and reporting

\* fs.promises.writeFile(<side file>, <side result>.content) (lines 409, 445)
WriteFile(side) ==
    /\ pc = (IF side = "base" THEN "writeBase" ELSE "writeHead")
    /\ \/ /\ files' = [p \in DOMAIN files \cup {OutFile(side)} |->
                         IF p = OutFile(side) THEN results[side].content ELSE files[p]]
          /\ Goto(IF side = "base" THEN "rmHead" ELSE "diff")
       \/ /\ \E e \in RaisedValues : Catch(e)
          /\ UNCHANGED files
    /\ UNCHANGED <<world, cfg, sha, results, allStderr, hasError, calls, outputs, pending, baseDirSeen>>

DiffCommand == <<"yamldiff", " ">> \o baseFile \o <<" ">> \o headFile

\* hasError.toString()
BoolText(b) == IF b THEN <<"true">> ELSE <<"false">>

\* The diff engine's contribution to the error state (lines 454-457).
DiffFailedMutNever(result) == FALSE

DiffFailed(result) == result.exitCode # 0

\* Lines 449-468: yamldiff is run, its error accumulated, the three
\* outputs set.
Diff ==
    /\ pc = "diff"
    /\ \E o \in LaunchOutcomes :
        LET diffResult == runCommand(JsStr(DiffCommand), <<"/tmp">>, o).value
            stderrOut == IF DiffFailed(diffResult)
                         THEN allStderr \o <<"Yamldiff error: ">> \o diffResult.stderr \o <<"\n">>
                         ELSE allStderr
            errorOut == hasError \/ DiffFailed(diffResult)
        IN  /\ calls' = Append(calls, Launch(diffResult))
            /\ results' = results @@ ("diff" :> [stdout |-> diffResult.stdout,
                                                  stderr |-> diffResult.stderr,
                                                  exitCode |-> diffResult.exitCode])
            /\ allStderr' = stderrOut
            /\ hasError' = errorOut
            /\ outputs' = ("diff-output" :> diffResult.stdout)
                          @@ ("stderr" :> stderrOut)
                          @@ ("error" :> BoolText(errorOut))
    /\ Goto("done")
    /\ UNCHANGED <<world, cfg, sha, files, pending, baseDirSeen>>

\* -------------------------------------------------------- specification

\* The worlds a run starts in.
ColdHost == [helm |-> FALSE, yamldiff |-> FALSE, gopath |-> <<"/root/go">>]

PlainRepo ==
    [head |-> <<"c1">>, defaultBranch |-> <<"trunk">>,
     direct |-> [s \in Sides |-> IF s = "base" THEN <<"c2">> ELSE <<"c1">>],
     origin |-> [s \in Sides |-> <<>>]]

PlainInputs(tools) ==
    Inputs(tools, {<<>>}, {<<>>}, {<<"release">>}, {<<>>}, {<<>>}, {<<>>}, {<<>>})

\* Every tool input with its defaults.
ToolWorlds == [input : PlainInputs(ToolInputs), host : {ColdHost}, repo : {PlainRepo}]

\* Every command and prepare-commands input, for a tool that collects
\* files, a tool that renders and a tool whose defaults are not text.
CommandWorlds ==
    [input : Inputs({"yaml", "helm", "constructor"}, CommandInputs, PrepareInputs,
                    {<<"release">>}, {<<>>}, {<<>>}, {<<>>}, {<<>>}),
     host : {ColdHost}, repo : {PlainRepo}]

\* Every ref input, in repositories with and without a current commit and
\* a default branch.
RefWorlds ==
    [input : Inputs({""}, {<<>>}, {<<>>}, BaseRefInputs, HeadRefInputs, ShaEnvironment,
                    {<<>>}, {<<>>}),
     host : {ColdHost},
     repo : {r \in Repos : r.direct = PlainRepo.direct /\ r.origin = PlainRepo.origin}]

\* Every working-directory input.
DirWorlds ==
    [input : Inputs({"", "kustomize"}, {<<>>}, {<<>>}, {<<"release">>}, {<<>>}, {<<>>},
                    WorkingDirInputs, HeadWorkingDirInputs),
     host : {ColdHost}, repo : {PlainRepo}]

\* Every host.
HostWorlds == [input : PlainInputs({"", "helm"}), host : Hosts, repo : {PlainRepo}]

\* Every answer of the repository to the lookups of two ref names.
LookupWorlds ==
    [input : Inputs({"kustomize"}, {<<>>}, {<<>>}, {<<"release">>}, {<<"feature">>},
                    {<<>>}, {<<>>}, {<<>>}),
     host : {ColdHost},
     repo : {r \in Repos : r.head # <<>> /\ r.defaultBranch # <<>>}]

\* A command written with two spaces and a tab between its words.
SpacedCommand == <<"kustomize", " ", " ", "build", "\t", ".">>

SpacedWorlds ==
    [input : Inputs({"kustomize"}, {SpacedCommand}, {<<>>}, {<<"release">>}, {<<>>},
                    {<<>>}, {<<>>}, {<<>>}),
     host : {ColdHost}, repo : {PlainRepo}]

Worlds ==
    ToolWorlds \cup CommandWorlds \cup RefWorlds \cup DirWorlds \cup HostWorlds
    \cup LookupWorlds \cup SpacedWorlds

Init == InitWith(Worlds)

Next ==
    \/ ResolveConfig
    \/ RevParseHEAD
    \/ ProbeHelm
    \/ InstallHelm
    \/ ProbeYamldiff
    \/ InstallYamldiff
    \/ \E side \in Sides : RemoveRepoDir(side)
    \/ \E side \in Sides : ResolveRef(side)
    \/ \E side \in Sides : Clone(side)
    \/ \E side \in Sides : Checkout(side)
    \/ \E side \in Sides : BeginGenerate(side)
    \/ \E side \in Sides : PrepareStep(side)
    \/ \E side \in Sides : Render(side)
    \/ \E side \in Sides : WriteFile(side)
    \/ Diff

Spec == Init /\ [][Next]_vars

\* generateManifests alone, for tool yaml without command or prepare
\* commands, on a directory known from the start: the run stands at the
\* generation of the head side, the base side having been empty.
InitCollect ==
    /\ input \in PlainInputs({"yaml"})
    /\ host = ColdHost
    /\ repo = PlainRepo
    /\ tree \in CollectInputs
    /\ pc = "generateHead"
    /\ cfg = [NoConfig EXCEPT !.tool = ResolvedTool(input),
                              !.command = ResolvedCommand(input),
                              !.prepareCommands = ResolvedPrepareCommands(input),
                              !.baseRef = input.baseRef,
                              !.headRef = repo.head,
                              !.currentHeadSha = repo.head,
                              !.workingDir = <<"./">>,
                              !.headWorkingDir = <<"./">>]
    /\ sha = [s \in Sides |-> repo.direct[s] \o <<"\n">>]
    /\ results = ("base" :> EmptyResult)
    /\ allStderr = <<>>
    /\ hasError = FALSE
    /\ calls = <<>>
    /\ files = (baseFile :> <<>>)
    /\ outputs = Empty
    /\ pending = <<>>
    /\ baseDirSeen = "missing"
    /\ failed = <<>>
    /\ thrown = <<>>

\* generateManifests(tool, command, <the directory>, prepareCommands)
GenerateFromTree ==
    /\ pc = "generateHead"
    /\ PrepareCommandsToRun(cfg.prepareCommands) = Returned(<<>>)
    /\ CollectsFiles(cfg.tool, cfg.command)
    /\ CollectStep("head", tree)
    /\ UNCHANGED <<world, cfg, sha, calls, files, outputs, pending, baseDirSeen>>

SpecCollect == InitCollect /\ [][GenerateFromTree]_vars


\* ------------------------------------------------------------ properties

\* The run has returned.
Ended == pc \in {"done", "failed"}

\* The call c is in the log.
Made(c) == \E i \in 1..Len(calls) : calls[i] = c

\* The launches made in the directory cwd, in order.
LaunchesIn(cwd) == SelectSeq(calls, LAMBDA c : c.cwd = cwd)

OutputNames == {"diff-output", "stderr", "error"}

\* A stage has reported a failure as data: a side's result has
\* hasError = true, or the diff engine exited non-zero.
RecoverableFailureReported ==
    \/ \E s \in Sides \cap DOMAIN results : results[s].hasError
    \/ "diff" \in DOMAIN results /\ results["diff"].exitCode # 0

\* The pipeline went through to its end: the head was cloned, checked out
\* and generated, both files hold their side's content, the diff engine
\* was run on the two files, the three outputs are set, setFailed was not
\* called.
PipelineCompleted ==
    /\ pc = "done"
    /\ failed = <<>>
    /\ Made(CloneCall("head"))
    /\ Made(CheckoutCall("head", Trim(sha["head"])))
    /\ DOMAIN results = Sides \cup {"diff"}
    /\ DOMAIN files = {baseFile, headFile}
    /\ files[baseFile] = results["base"].content
    /\ files[headFile] = results["head"].content
    /\ \E i \in 1..Len(calls) :
          /\ calls[i].prog = <<"yamldiff">>
          /\ calls[i].args = <<baseFile, headFile>>
    /\ DOMAIN outputs = OutputNames

\* C1: a recoverable failure never stops the pipeline. A run that has
\* returned with a stage's failure reported as data and nothing raised has
\* gone through every later stage: the head side cloned and generated,
\* both files written, the diff engine run on the two files, the three
\* outputs set, setFailed not called. In particular a base result with
\* hasError = true does not end the run.
C1_RecoverableFailuresDoNotStopThePipeline ==
    /\ (Ended /\ RecoverableFailureReported /\ thrown = <<>>) => PipelineCompleted
    /\ thrown = <<>> => failed = <<>>

\* C1 witness: a run is done whose base result has hasError = true.
C1_BaseFailedAndRunCompleted ==
    /\ pc = "done"
    /\ results["base"].hasError
    /\ ~results["head"].hasError
    /\ outputs["error"] = <<"true">>

\* C2: when the run completes, the error output is "true" exactly when
\* the base result has hasError, or the head result has hasError, or the
\* diff engine's exit code is not zero; it is "false" otherwise.
C2_ErrorOutputIsTheDisjunction ==
    pc = "done" =>
        outputs["error"] =
            (IF \/ results["base"].hasError
                \/ results["head"].hasError
                \/ results["diff"].exitCode # 0
             THEN <<"true">> ELSE <<"false">>)

\* C2 witness: a run is done with only the diff engine having failed.
C2_OnlyTheDiffFailed ==
    /\ pc = "done"
    /\ ~results["base"].hasError
    /\ ~results["head"].hasError
    /\ results["diff"].exitCode # 0
    /\ outputs["error"] = <<"true">>

\* The line a stage adds to the stderr output.
StderrLine(prefix, text) == <<prefix>> \o text \o <<"\n">>

DiffStderrLine ==
    IF results["diff"].exitCode # 0
    THEN StderrLine("Yamldiff error: ", results["diff"].stderr)
    ELSE <<>>

\* C3 as stated: when the run completes, the stderr output is, in the
\* order base, head, diff, one line for each side whose generation error
\* is non-empty and one line for a diff engine error, and nothing else.
C3_OneLinePerNonEmptyError ==
    pc = "done" =>
        outputs["stderr"] =
            (IF results["base"].hasError /\ results["base"].stderr # <<>>
             THEN StderrLine("Base ref error: ", results["base"].stderr) ELSE <<>>)
            \o (IF results["head"].hasError /\ results["head"].stderr # <<>>
                THEN StderrLine("Head ref error: ", results["head"].stderr) ELSE <<>>)
            \o DiffStderrLine

\* C3 amended: when the run completes, the stderr output is, in the order
\* base, head, diff, one line for each side whose result has hasError =
\* true, whether or not its error text is empty, and one line for a diff
\* engine that exited non-zero, and nothing else.
C3_OneLinePerReportedError ==
    pc = "done" =>
        outputs["stderr"] =
            (IF results["base"].hasError
             THEN StderrLine("Base ref error: ", results["base"].stderr) ELSE <<>>)
            \o (IF results["head"].hasError
                THEN StderrLine("Head ref error: ", results["head"].stderr) ELSE <<>>)
            \o DiffStderrLine

\* C3 witness: a run is done in which all three stages failed, the base
\* side with an empty error text.
C3_AllThreeStagesFailed ==
    /\ pc = "done"
    /\ results["base"].hasError /\ results["base"].stderr = <<>>
    /\ results["head"].hasError /\ results["head"].stderr # <<>>
    /\ results["diff"].exitCode # 0
    /\ outputs["stderr"] =
          <<"Base ref error: ", "\n", "Head ref error: ", "spawn ENOENT", "\n",
            "Yamldiff error: ", "spawn ENOENT", "\n">>

\* The side's ref is a name that rev-parse does not find.
DirectLookupFails(side) == SideRef(side) \notin Commits /\ repo.direct[side] = <<>>

\* The run has asked for origin/<ref> of the side.
OriginLookedUp(side) == Made(RevParseCall(OriginRef(SideRef(side))))

\* The side's direct lookup failed and the lookup of origin/<ref> found a
\* commit.
FellBack(side) ==
    /\ DirectLookupFails(side)
    /\ repo.origin[side] # <<>>
    /\ OriginLookedUp(side)

\* The checkouts made in the side's clone.
CheckoutsOf(side) ==
    SelectSeq(calls, LAMBDA c : /\ c.cwd = RepoDir(side)
                                /\ c.prog = <<"git">>
                                /\ Head(c.args) = <<"checkout">>)

\* C4: for either side, when rev-parse of the ref fails and rev-parse of
\* origin/<ref> succeeds, the commit the origin lookup returned is the
\* one checked out in that side's clone, the run goes on to the clone,
\* and the fallback surfaces no error: setFailed is not called and the
\* error and stderr outputs get nothing from it.
C4_OriginFallbackResolvesTheRef ==
    \A side \in Sides :
        FellBack(side) =>
            /\ side \in DOMAIN sha
            /\ Trim(sha[side]) = repo.origin[side]
            /\ \A i \in 1..Len(CheckoutsOf(side)) :
                  CheckoutsOf(side)[i] = CheckoutCall(side, repo.origin[side])
            /\ side \in DOMAIN results => Len(CheckoutsOf(side)) = 1
            /\ pc = (IF side = "base" THEN "cloneBase" ELSE "cloneHead") =>
                  /\ thrown = <<>>
                  /\ failed = <<>>
                  /\ hasError = RecoverableFailureReported
            /\ (Ended /\ thrown = <<>>) => PipelineCompleted
            /\ (pc = "done" /\ ~RecoverableFailureReported) =>
                  /\ outputs["error"] = <<"false">>
                  /\ outputs["stderr"] = <<>>

\* C4 witness: a run is done, without error, in which both sides were
\* resolved through origin/<ref>.
C4_BothSidesFellBackAndRunCompleted ==
    /\ pc = "done"
    /\ FellBack("base")
    /\ FellBack("head")
    /\ Made(CheckoutCall("head", repo.origin["head"]))
    /\ repo.origin["head"] # repo.origin["base"]
    /\ outputs["error"] = <<"false">>

\* Both lookups of the side's ref have failed.
BothLookupsFailed(side) ==
    /\ DirectLookupFails(side)
    /\ repo.origin[side] = <<>>
    /\ OriginLookedUp(side)

\* Nothing was done for the side after its ref was looked up.
NothingMaterialised(side) ==
    /\ ~Made(CloneCall(side))
    /\ CheckoutsOf(side) = <<>>
    /\ LaunchesIn(SideWorkingDir(side)) = <<>>
    /\ side \notin DOMAIN results
    /\ OutFile(side) \notin DOMAIN files

\* C5: for either side, when rev-parse of the ref and rev-parse of
\* origin/<ref> both fail, the run has failed: setFailed was called with
\* the message of the failed origin lookup, nothing was cloned, checked
\* out or generated for that side, the lookup is the last call made, and
\* no output is set.
C5_UnresolvableRefFailsTheRun ==
    \A side \in Sides :
        BothLookupsFailed(side) =>
            /\ pc = "failed"
            /\ failed = <<RevParseOriginAnswer(side, SideRef(side)).message>>
            /\ NothingMaterialised(side)
            /\ calls[Len(calls)] = RevParseCall(OriginRef(SideRef(side)))
            /\ DOMAIN outputs = {}

\* C5 witness: the head ref resolved by neither lookup, after the base
\* side went through.
C5_HeadRefUnresolvable ==
    /\ BothLookupsFailed("head")
    /\ pc = "failed"
    /\ DOMAIN files = {baseFile}
    /\ Len(failed) = 1

C7_HeadAtCurrentCommitIsNotCloned ==
    /\ ("head" \in DOMAIN sha /\ Trim(sha["head"]) = cfg.currentHeadSha) =>
          /\ ~Made(CloneCall("head"))
          /\ CheckoutsOf("head") = <<>>
          /\ LaunchesIn(SideWorkingDir("head")) = <<>>
    /\ "base" \in DOMAIN results => Made(CloneCall("base"))

\* C8: when the base working directory is found missing or empty, then
\* whatever the tool, nothing is launched in it (no prepare command, no
\* render command), the base result is content "" with hasError false,
\* it adds nothing to the error state or to the stderr and error outputs,
\* and the run goes on through the head side and the diff.
C8_EmptyBaseIsSkipped ==
    baseDirSeen \in {"missing", "empty"} =>
        /\ "base" \in DOMAIN results
        /\ results["base"] = ManifestResult(<<>>, <<>>, FALSE)
        /\ LaunchesIn(SideWorkingDir("base")) = <<>>
        /\ pc = "writeBase" => (~hasError /\ allStderr = <<>>)
        /\ (Ended /\ thrown = <<>>) => PipelineCompleted
        /\ pc = "done" =>
              /\ outputs["stderr"] =
                    (IF results["head"].hasError
                     THEN StderrLine("Head ref error: ", results["head"].stderr)
                     ELSE <<>>) \o DiffStderrLine
              /\ outputs["error"] = <<"true">> <=>
                    (results["head"].hasError \/ results["diff"].exitCode # 0)

\* C8 witness (scenario B): tool helm, the base working directory is
\* missing, the head side ran its prepare command and its render command,
\* and the run is done without error.
C8_MissingBaseThenHelmHead ==
    /\ pc = "done"
    /\ baseDirSeen = "missing"
    /\ cfg.tool = "helm"
    /\ results["base"].content = <<>>
    /\ Len(LaunchesIn(SideWorkingDir("head"))) = 2
    /\ results["head"].content = <<"kind: A">>
    /\ outputs["error"] = <<"false">>

\* The prepare commands generateManifests is to run.
PrepareCommandsOfRun == PrepareCommandsToRun(cfg.prepareCommands).value

\* The call c is the launch runCommand makes of the command text in cwd.
IsLaunchOf(c, command, cwd) ==
    LET words == Split(command, " ")
    IN  c.prog = Head(words) /\ c.args = Tail(words) /\ c.cwd = cwd

\* The text t occurs in the text s.
Contains(s, t) ==
    \E k \in 0..Len(s) : k + Len(t) <= Len(s) /\ SubSeq(s, k + 1, k + Len(t)) = t

\* C9: on either side the launches made in the working directory are the
\* prepare commands in their listed order, one after the other; when one
\* of them exits non-zero it is the last launch of that side (no later
\* prepare command, no render command), no file is collected, and the
\* side's result is hasError = true, content "", with a stderr that
\* carries what the command wrote to its standard error.
C9_FailedPrepareCommandEndsGeneration ==
    LET commands == PrepareCommandsOfRun
    IN  \A side \in Sides :
            LET launches == LaunchesIn(SideWorkingDir(side))
            IN  \A i \in 1..Len(launches) :
                    i <= Len(commands) =>
                        /\ IsLaunchOf(launches[i], commands[i], SideWorkingDir(side))
                        /\ launches[i].result.exitCode # 0 =>
                              /\ Len(launches) = i
                              /\ side \in DOMAIN results
                              /\ results[side].hasError
                              /\ results[side].content = <<>>
                              /\ Contains(results[side].stderr, launches[i].result.stderr)

\* C9 witness: of two prepare commands the first succeeded on the base
\* side and could not be launched on the head side.
C9_FirstOfTwoPrepareCommandsFailed ==
    /\ pc = "writeHead"
    /\ Len(PrepareCommandsOfRun) = 2
    /\ Len(LaunchesIn(SideWorkingDir("base"))) = 3
    /\ Len(LaunchesIn(SideWorkingDir("head"))) = 1
    /\ results["head"] =
          ManifestResult(<<>>, <<"Prepare command failed (", "step", " ", "1", "): ",
                                 "spawn ENOENT", "\n">>, TRUE)

\* The defaults the action documents for each tool.
DocumentedCommand(tool) ==
    CASE tool = "helm" -> <<"helm", " ", "template", " ", ".">>
      [] tool = "kustomize" -> <<"kustomize", " ", "build", " ", ".">>
      [] OTHER -> <<>>

DocumentedPrepareCommands(tool) ==
    CASE tool = "helm" -> <<"helm", " ", "dependency", " ", "update">>
      [] OTHER -> <<>>

\* C10 as stated: once the configuration is resolved, the render command
\* is the command input when that is non-empty and the documented default
\* of the tool otherwise, the same for the prepare commands; a tool name
\* that is not one of yaml, helm, kustomize has the empty default for
\* both, and the run does not fail over it.
C10_DefaultsResolvePerTool ==
    pc # "start" =>
        /\ cfg.command = JsStr(IF input.command # <<>> THEN input.command
                               ELSE DocumentedCommand(cfg.tool))
        /\ cfg.prepareCommands =
              JsStr(IF input.prepareCommands # <<>> THEN input.prepareCommands
                    ELSE DocumentedPrepareCommands(cfg.tool))
        /\ \A i \in 1..Len(thrown) :
              thrown[i].message # <<"prepareCommands.split is not a function">>


\* The index of the first occurrence of the call c in the log, 0 if none.
IndexOfCall(c) ==
    IF Made(c) THEN CHOOSE i \in 1..Len(calls) :
                        calls[i] = c /\ \A j \in 1..(i - 1) : calls[j] # c
    ELSE 0

\* C11 as stated: configuration resolution never fails. Whatever the
\* inputs and whatever the git queries answer, a run that has failed had
\* its configuration fully resolved first (the head ref is known), and a
\* failing default-branch query yields the base ref "main".
C11_ConfigurationResolutionNeverFails ==
    /\ pc = "failed" => cfg.headRef # <<>>
    /\ (pc # "start" /\ input.baseRef = <<>> /\ repo.defaultBranch = <<>>) =>
          cfg.baseRef = <<"main">>

\* The directory <root>/<dir> as path.join gives it.
DirectoryIn(root, dir) == root \o <<"/">> \o (IF dir = <<"./">> THEN <<>> ELSE dir)

\* The prepare and render launches: those made inside a clone but not at
\* its top, where only git checkout runs.
GenerationLaunches ==
    SelectSeq(calls, LAMBDA c : c.cwd \notin {<<>>, <<"/tmp">>, baseRepoDir, headRepoDir})

\* C12: the head ref is the head-ref input when given, else GITHUB_SHA
\* when set, else the current commit, and it is the ref looked up for the
\* head side; the base working directory is the working-dir input, else
\* "./"; the head working directory is the head-working-dir input when
\* given, else the base working directory; every generation launch runs
\* in <base tree>/<working-dir> before the head side starts and in
\* <head tree>/<head-working-dir> after.
C12_HeadRefAndWorkingDirectories ==
    /\ cfg.headRef # <<>> =>
          cfg.headRef = (IF input.headRef # <<>> THEN input.headRef
                         ELSE IF input.GITHUB_SHA # <<>> THEN input.GITHUB_SHA
                         ELSE repo.head)
    /\ "head" \in DOMAIN sha => Made(RevParseCall(cfg.headRef))
    /\ pc # "start" =>
          /\ cfg.workingDir = (IF input.workingDir # <<>> THEN input.workingDir
                               ELSE <<"./">>)
          /\ cfg.headWorkingDir = (IF input.headWorkingDir # <<>>
                                   THEN input.headWorkingDir ELSE cfg.workingDir)
    /\ \A i \in 1..Len(calls) :
          calls[i].cwd \notin {<<>>, <<"/tmp">>, baseRepoDir, headRepoDir} =>
              calls[i].cwd =
                  (IF Made(RmCall(headRepoDir)) /\ IndexOfCall(RmCall(headRepoDir)) < i
                   THEN DirectoryIn(headRepoDir,
                            IF input.headWorkingDir # <<>> THEN input.headWorkingDir
                            ELSE IF input.workingDir # <<>> THEN input.workingDir
                            ELSE <<"./">>)
                   ELSE DirectoryIn(baseRepoDir,
                            IF input.workingDir # <<>> THEN input.workingDir
                            ELSE <<"./">>))

\* C12 witness: with working-dir charts and head-working-dir next, the
\* base was rendered in /tmp/base-ref-repo/charts and the head in
\* /tmp/head-ref-repo/next.
C12_SidesRenderedInTheirOwnDirectories ==
    /\ pc = "done"
    /\ input.workingDir = <<"charts">>
    /\ input.headWorkingDir = <<"next">>
    /\ Len(GenerationLaunches) = 2
    /\ GenerationLaunches[1].cwd = <<"/tmp/base-ref-repo", "/", "charts">>
    /\ GenerationLaunches[2].cwd = <<"/tmp/head-ref-repo", "/", "next">>


\* The probe of the tool is in the log with this exit code of `which`.
Probed(toolName, exitCode) ==
    \E i \in 1..Len(calls) :
        /\ calls[i].prog = <<"which", " ", toolName>>
        /\ calls[i].result.exitCode = exitCode

HelmInstallStarted == Made(Call(<<"tc.downloadTool">>, <<>>, <<>>))

YamldiffInstallStarted ==
    Made(Call(<<"go">>, <<<<"install">>, <<"github.com/semihbkgr/yamldiff@v0.3.0">>>>, <<>>))

\* The calls that provision a tool, and the commands that use one.
IsProvisioning(c) ==
    \/ c.prog \in {<<"which", " ", "helm">>, <<"which", " ", "yamldiff">>}
    \/ c.prog \in {<<"tc.downloadTool">>, <<"tc.extractTar">>, <<"tc.cacheDir">>,
                   <<"go">>, <<"core.addPath">>}

IsCommandRun(c) == c.cwd \notin {<<>>, baseRepoDir, headRepoDir}

\* C13: helm is installed exactly when the tool is helm and the probe of
\* helm failed, and helm is probed for no other tool; yamldiff is
\* installed exactly when its probe failed, whatever the tool; a failed
\* probe does not fail the run; after a successful probe no install is
\* started; an install that raises fails the run with no output; and
\* every probe and install call comes before every prepare, render and
\* diff command, none of which runs before yamldiff was probed.
C13_ProvisioningIsConditionalAndFirst ==
    LET helmFound == Probed("helm", 0)
        helmMissing == Probed("helm", 1)
        yamldiffFound == Probed("yamldiff", 0)
        yamldiffMissing == Probed("yamldiff", 1)
        helmInstall == HelmInstallStarted
        yamldiffInstall == YamldiffInstallStarted
        provisioning == {i \in 1..Len(calls) : IsProvisioning(calls[i])}
        commands == {j \in 1..Len(calls) : IsCommandRun(calls[j])}
    IN  /\ helmInstall <=> (cfg.tool = "helm" /\ helmMissing /\ pc # "installHelm")
        /\ (helmFound \/ helmMissing) => cfg.tool = "helm"
        /\ yamldiffInstall <=> (yamldiffMissing /\ pc # "installYamldiff")
        /\ helmFound => ~helmInstall
        /\ yamldiffFound => ~yamldiffInstall
        /\ (pc = "failed" /\ calls # <<>>) =>
              calls[Len(calls)].prog
                  \notin {<<"which", " ", "helm">>, <<"which", " ", "yamldiff">>}
        /\ (calls # <<>> /\ calls[Len(calls)].prog \in
                {<<"tc.downloadTool">>, <<"tc.extractTar">>, <<"tc.cacheDir">>}) =>
              (pc = "failed" /\ DOMAIN outputs = {})
        /\ (calls # <<>> /\ calls[Len(calls)].prog = <<"go">>
                /\ calls[Len(calls)].args[1] = <<"install">>) =>
              (pc = "failed" /\ DOMAIN outputs = {})
        /\ \A j \in commands : \A i \in provisioning : i < j
        /\ commands # {} => (yamldiffFound \/ yamldiffMissing)

\* C13 witness: tool helm on a host with neither tool, both installed,
\* and the run went on to launch commands and completed.
C13_BothToolsInstalledThenUsed ==
    /\ pc = "done"
    /\ cfg.tool = "helm"
    /\ Probed("helm", 1) /\ HelmInstallStarted
    /\ Probed("yamldiff", 1) /\ YamldiffInstallStarted
    /\ Len(GenerationLaunches) = 4

\* Every entry below a directory that is not itself a directory, in the
\* order a depth-first walk in listing order meets them.
RECURSIVE EntriesInWalkOrder(_)
EntriesInWalkOrder(entries) ==
    IF entries = <<>>
    THEN <<>>
    ELSE LET e == Head(entries) IN
         (IF e.kind = "dir" THEN EntriesInWalkOrder(e.children) ELSE <<e>>)
         \o EntriesInWalkOrder(Tail(entries))

\* A regular file whose name ends in .yaml or .yml, in any letter case.
HasYamlExtension(e) ==
    /\ e.kind = "file"
    /\ \E k \in {4, 5} :
         /\ Len(e.name) >= k
         /\ [i \in 1..k |-> LowerChar(e.name[Len(e.name) - k + i])]
              \in {<<".", "y", "m", "l">>, <<".", "y", "a", "m", "l">>}

\* The documents of a list of files, each opened by a separator line.
RECURSIVE Documents(_)
Documents(fs) ==
    IF fs = <<>>
    THEN <<>>
    ELSE <<"---", "\n">> \o Head(fs).content \o <<"\n">> \o Documents(Tail(fs))

\* How many times the token t occurs in s.
Occurrences(s, t) == Cardinality({i \in 1..Len(s) : s[i] = t})

\* C14: for tool yaml with no command, on a directory tree with N files
\* whose names end in .yaml or .yml in any letter case and M other entries
\* at any depth, the generated content holds exactly the N files' contents
\* in the order of the walk, each opened by a "---" line, and none of the
\* others; the result reports no error; with N = 0 the content is empty.
C14_CollectsExactlyTheYamlFiles ==
    (pc = "writeHead" /\ tree.exists /\ tree.isDir) =>
        LET all == EntriesInWalkOrder(tree.entries)
            matching == SelectSeq(all, HasYamlExtension)
            content == results["head"].content
        IN /\ content = Documents(matching)
           /\ Occurrences(content, "---") = Len(matching)
           /\ \A i \in 1..Len(all) :
                (all[i].kind = "file" /\ ~HasYamlExtension(all[i]))
                    => \A j \in 1..Len(content) : <<content[j]>> # all[i].content
           /\ results["head"].stderr = <<>>
           /\ ~results["head"].hasError
           /\ ~hasError
           /\ (matching = <<>> => content = <<>>)

\* A nested lower-case file listed before an upper-case one at the top:
\* both are collected, the nested one first.
C14_NestedFileCollectedBeforeLaterSibling ==
    /\ pc = "writeHead"
    /\ tree.exists /\ tree.isDir
    /\ Len(tree.entries) = 2
    /\ tree.entries[1].kind = "dir"
    /\ tree.entries[2].kind = "file"
    /\ results["head"].content
         = <<"---", "\n", "kind: A", "\n", "---", "\n", "kind: B", "\n">>

\* What generateManifests raises itself: the rejection of readdir in
\* collectYamlFiles and the TypeErrors of runCommand and runPrepareCommands
\* on a value that is not a string.
RaisedByGeneration ==
    {ReaddirMessage,
     <<"command.split is not a function">>,
     <<"prepareCommands.trim is not a function">>}

\* C15: for every tool, render command, prepare-command list and working
\* directory, a missing directory included, generateManifests returns a
\* result and raises nothing to run: no run is failed by an error that
\* generateManifests raised.
C15_GenerationNeverRaises ==
    \A i \in 1..Len(thrown) : thrown[i].message \notin RaisedByGeneration

\* The launches of the render command made for a side, in order.
RenderLaunches(side) ==
    IF cfg.command.type # "string" \/ cfg.command.str = <<>>
    THEN <<>>
    ELSE LET cwd == SideWorkingDir(side)
             words == Split(cfg.command.str, " ")
         IN  SelectSeq(calls, LAMBDA c : c.cwd = cwd /\ c.prog = Head(words)
                                           /\ c.args = Tail(words))

\* C16: when the render command of a side was run, it was run once and
\* generation returned a result for the side whose content is the
\* command's standard output, whose stderr is its standard error and whose
\* hasError is true exactly when its exit code is not zero.
C16_RenderResultIsTheCommandsOutput ==
    \A side \in Sides :
        LET renders == RenderLaunches(side)
        IN  renders # <<>> =>
              /\ Len(renders) = 1
              /\ ~CollectsFiles(cfg.tool, cfg.command)
              /\ side \in DOMAIN results
              /\ results[side] = ManifestResult(renders[1].result.stdout,
                                                renders[1].result.stderr,
                                                renders[1].result.exitCode # 0)

\* The base render exited 0 with a warning on stderr and the head render
\* exited 2 with partial output: the first is no error, the second is one,
\* and the run went on to the diff.
C16_WarningThenNonZeroExit ==
    /\ pc = "diff"
    /\ RenderLaunches("base") # <<>> /\ RenderLaunches("head") # <<>>
    /\ RenderLaunches("base")[1].result
         = [exitCode |-> 0, stdout |-> <<"kind: B">>, stderr |-> <<"warning">>]
    /\ RenderLaunches("head")[1].result.exitCode = 2
    /\ results["base"] = ManifestResult(<<"kind: B">>, <<"warning">>, FALSE)
    /\ results["head"] = ManifestResult(<<"kind: partial">>, <<>>, TRUE)

\* The whitespace-delimited tokens of a text, in order.
RECURSIVE WhitespaceTokens(_)
WhitespaceTokens(s) ==
    IF s = <<>>
    THEN <<>>
    ELSE IF Head(s) \in Whitespace
    THEN WhitespaceTokens(Tail(s))
    ELSE LET stops == {i \in 1..Len(s) : s[i] \in Whitespace}
             n == IF stops = {} THEN Len(s) + 1
                  ELSE CHOOSE i \in stops : \A j \in stops : i <= j
         IN  <<SubSeq(s, 1, n - 1)>> \o WhitespaceTokens(SubSeq(s, n, Len(s)))

\* The command texts runCommand is given in a run: the render command and
\* the prepare commands.
CommandTexts ==
    (IF cfg.command.type = "string" THEN {cfg.command.str} ELSE {})
    \cup (IF PrepareCommandsToRun(cfg.prepareCommands).threw
          THEN {}
          ELSE LET list == PrepareCommandsToRun(cfg.prepareCommands).value
               IN  {list[i] : i \in 1..Len(list)})

\* C17 as stated: every launch runCommand makes runs the program named by
\* the first whitespace-delimited token of a command text with the
\* remaining whitespace-delimited tokens as arguments, so that runs of
\* spaces and tabs count as one separator (a text without any token names
\* the empty program).
C17_CommandsSplitOnWhitespace ==
    LET texts == CommandTexts
        dirs == {SideWorkingDir(side) : side \in Sides}
    IN  \A i \in 1..Len(calls) :
          calls[i].cwd \in dirs =>
            \E text \in texts :
               LET words == WhitespaceTokens(text)
               IN  IF words = <<>>
                   THEN calls[i].prog = <<>> /\ calls[i].args = <<>>
                   ELSE calls[i].prog = Head(words) /\ calls[i].args = Tail(words)

\* Where in the call log the steps of a side stand.
RemovalsAt(side) ==
    LET dir == <<RepoDir(side)>>
    IN  {i \in 1..Len(calls) : calls[i].prog = <<"io.rmRF">> /\ calls[i].args = dir}
ClonesAt(side) ==
    LET clone == CloneCall(side).args
    IN  {i \in 1..Len(calls) : calls[i].prog = <<"git">> /\ calls[i].args = clone}
CheckoutsAt(side) ==
    LET dir == RepoDir(side)
    IN  {i \in 1..Len(calls) : /\ calls[i].cwd = dir
                               /\ calls[i].prog = <<"git">>
                               /\ Head(calls[i].args) = <<"checkout">>}
GenerationAt(side) ==
    LET dir == SideWorkingDir(side)
    IN  {i \in 1..Len(calls) : calls[i].cwd = dir}

\* The steps of one side are in order: one removal, the lookup right after
\* it, the clone after the lookups, the checkout of the resolved commit
\* right after the clone, the generation commands after the checkout.
SideStepsInOrder(s, rm, clone, checkout, generation) ==
    /\ Cardinality(rm) <= 1
    /\ Cardinality(clone) <= 1
    /\ Cardinality(checkout) <= 1
    /\ \A i \in rm : i < Len(calls) => calls[i + 1] = RevParseCall(SideRef(s))
    /\ \A i \in clone :
         \/ i - 2 \in rm
         \/ i - 3 \in rm /\ calls[i - 1] = RevParseCall(OriginRef(SideRef(s)))
    /\ \A i \in checkout :
         /\ i - 1 \in clone
         /\ calls[i].args = <<<<"checkout">>, Trim(sha[s])>>
    /\ \A i \in generation : \E j \in checkout : j < i
    /\ s \in DOMAIN results => checkout # {}

\* C18: on each side the target directory is removed once, the ref is
\* looked up right after, the clone follows the lookups, the checkout of
\* the resolved commit follows the clone, and every command of the side's
\* generation, as the side's result, comes after the checkout; every base
\* step stands before the first head step, and from the first head step
\* on the base result is written to the base file.
C18_StepsOfASideAreOrderedAndBaseComesFirst ==
    LET rmBase == RemovalsAt("base")
        cloneBase == ClonesAt("base")
        checkoutBase == CheckoutsAt("base")
        generationBase == GenerationAt("base")
        rmHead == RemovalsAt("head")
        cloneHead == ClonesAt("head")
        checkoutHead == CheckoutsAt("head")
        generationHead == GenerationAt("head")
    IN  /\ SideStepsInOrder("base", rmBase, cloneBase, checkoutBase, generationBase)
        /\ SideStepsInOrder("head", rmHead, cloneHead, checkoutHead, generationHead)
        /\ \A j \in rmHead :
             \A i \in rmBase \cup cloneBase \cup checkoutBase \cup generationBase : i < j
        /\ (pc \in {"rmHead", "resolveHead", "cloneHead", "checkoutHead", "generateHead",
                     "prepareHead", "renderHead", "writeHead", "diff", "done"}
             \/ rmHead # {}) =>
             /\ "base" \in DOMAIN results
             /\ baseFile \in DOMAIN files
             /\ files[baseFile] = results["base"].content

\* Both sides were materialised, the base through the origin lookup, and
\* both ran the render command.
C18_BothSidesMaterialisedAndGenerated ==
    /\ pc = "diff"
    /\ \A s \in Sides : /\ RemovalsAt(s) # {}
                         /\ CheckoutsAt(s) # {}
                         /\ GenerationAt(s) # {}
    /\ Made(RevParseCall(OriginRef(cfg.baseRef)))

\* The accumulated error text and the flag agree, and the outputs of a
\* completed run agree with each other.
ErrorTextMatchesFlag ==
    /\ (allStderr # <<>>) <=> hasError
    /\ pc = "done" => ((outputs["error"] = <<"true">>) <=> (outputs["stderr"] # <<>>))

\* C19: at every point of a run the accumulated stderr text is non-empty
\* exactly when hasError is true, the flag once true stays true, and in a
\* completed run the error output is "true" exactly when the stderr output
\* is not empty.
C19_ErrorTextIffFlag ==
    /\ []ErrorTextMatchesFlag
    /\ [][hasError => hasError']_vars

\* A completed run whose only failure is a base render that exited
\* non-zero with nothing on stderr: the stderr output is still not empty.
C19_FailureWithEmptyTextCompleted ==
    /\ pc = "done"
    /\ results["base"].hasError /\ results["base"].stderr = <<>>
    /\ ~results["head"].hasError
    /\ results["diff"].exitCode = 0
    /\ outputs["error"] = <<"true">>
    /\ outputs["stderr"] = <<"Base ref error: ", "\n">>
====
